---- MODULE Spec2Model ----
(***************************************************************************)
(* Model of src/fork/mod.rs of pty-rs: Fork::new / Fork::from_pts, the     *)
(* variant accessors and Drop for Fork.  The two execution contexts that   *)
(* exist after libc::fork() run the same code; "orig" is the context that  *)
(* called Fork::new, "dup" the duplicated one.                             *)
(***************************************************************************)
EXTENDS Integers, Sequences, FiniteSets, TLC

\* ---------------------------------------------------------------- bounds
MaxPid == 2          \* process ids the fork primitive may hand out: 1..MaxPid
MaxAliases == 2      \* Master clones obtained through is_parent() at one time
MaxRetries == 2      \* "no status change" results of waitpid within one wait()

\* ------------------------------------------------------------- constants
STDIN_FILENO == 0
STDOUT_FILENO == 1
STDERR_FILENO == 2

\* Paths are byte strings.  DEFAULT_PTMX is "/dev/ptmx"; the other paths are
\* a nonexistent one, one with an interior NUL byte and the empty one.
DEFAULT_PTMX == <<47, 100, 101, 118, 47, 112, 116, 109, 120>>
Paths == {DEFAULT_PTMX, <<110, 111>>, <<112, 0, 120>>, <<>>}

Ctx == {"orig", "dup"}

\* How the duplicated process can end: an exit code, or a signal (SIGKILL,
\* SIGTERM) sent from outside.
ExitCodes == {0, 1}
Signals == {9, 15}

\* CString::new(path).ok().unwrap_or_default(): a path with an interior NUL
\* byte is replaced by the empty string.
CStringNew(p) == IF \E i \in 1..Len(p) : p[i] = 0 THEN <<>> ELSE p

\* The device behind a C path can be opened only when it exists.
DeviceExists(cpath) == cpath = DEFAULT_PTMX

\* ---------------------------------------------------------------- values
NoResult == [tag |-> "None", variant |-> "-", cause |-> "-", pid |-> 0]
OkParent(p) == [tag |-> "Ok", variant |-> "Parent", cause |-> "-", pid |-> p]
OkChild == [tag |-> "Ok", variant |-> "Child", cause |-> "-", pid |-> 0]
Err(e, c) == [tag |-> "Err", variant |-> e, cause |-> c, pid |-> 0]

NoFd == [state |-> "none", rc |-> 0, closes |-> 0]
OpenFd == [state |-> "open", rc |-> 1, closes |-> 0]

\* Descriptor::drop: closes the OS handle; the validity flag makes a second
\* call a no-op.
DescriptorDrop(d) ==
    IF d.state = "open" THEN [d EXCEPT !.state = "closed", !.closes = @ + 1]
    ELSE d

\* Master::clone: one more alias of the same descriptor.
MasterClone(m) == [m EXCEPT !.rc = @ + 1]

\* An alias of the Master goes away; the last one closes the descriptor.
MasterRelease(m) ==
    LET n == [m EXCEPT !.rc = @ - 1]
    IN IF n.rc = 0 THEN DescriptorDrop(n) ELSE n

\* wait(): not called yet.  log holds the values libc::waitpid returned in
\* the current call.
NoWait == [state |-> "idle", log |-> <<>>, status |-> 0, res |-> "none"]

\* The duplicated process: none yet.
NoProc == [state |-> "none", code |-> 0, reaped |-> FALSE]

VARIABLES
    pc,        \* [Ctx -> position in Fork::new / Fork::from_pts]
    cpath,     \* the C path handed to Master::new
    grantErr,  \* [Ctx -> cause of master.grantpt().err() or "none"]
    res,       \* [Ctx -> result of Fork::new in that context]
    childPid,  \* process id of the duplicated process, 0 while there is none
    trace,     \* OS primitives invoked by Fork::new so far, in order
    master,    \* [Ctx -> the master descriptor in that process]
    slave,     \* [Ctx -> the slave descriptor in that process]
    stdio,     \* [Ctx -> [0..2 -> what the standard stream refers to]]
    forkVal,   \* [Ctx -> "none" | "live" | "dropped"] the returned Fork value
    aliases,   \* [Ctx -> number of live Master clones handed out]
    probe,     \* [Ctx -> results of the last is_parent() and is_child()]
    aliasOp,   \* [Ctx -> outcome of the last operation on a Master clone]
    wait,      \* [Ctx -> the wait() call of that context: position, the
               \*  values waitpid returned so far, status, result]
    proc       \* the duplicated process: running or how it terminated

vars == <<pc, cpath, grantErr, res, childPid, trace, master, slave, stdio,
          forkVal, aliases, probe, aliasOp, wait, proc>>

Ev(c, op, arg, ok) == [ctx |-> c, op |-> op, arg |-> arg, ok |-> ok]

Init ==
    /\ pc = [c \in Ctx |-> IF c = "orig" THEN "idle" ELSE "absent"]
    /\ cpath = <<>>
    /\ grantErr = [c \in Ctx |-> "none"]
    /\ res = [c \in Ctx |-> NoResult]
    /\ childPid = 0
    /\ trace = <<>>
    /\ master = [c \in Ctx |-> NoFd]
    /\ slave = [c \in Ctx |-> NoFd]
    /\ stdio = [c \in Ctx |-> [t \in 0..2 |-> "inherited"]]
    /\ forkVal = [c \in Ctx |-> "none"]
    /\ aliases = [c \in Ctx |-> 0]
    /\ probe = [c \in Ctx |-> [is_parent |-> "none", is_child |-> "none"]]
    /\ aliasOp = [c \in Ctx |-> "none"]
    /\ wait = [c \in Ctx |-> NoWait]
    /\ proc = NoProc

\* A context takes a step only while its process runs and it is not inside
\* the blocking wait().
CanRun(c) ==
    /\ c = "dup" => proc.state = "running"
    /\ wait[c].state # "waiting"

\* ------------------------------------------------------ decisions of new
\* Variant: a failed open is not treated as an error.
OpenArm_IgnoreErr(ok) == "grantpt"

\* match Master::new(..) { Err(cause) => .., Ok(master) => .. }
OpenArm(ok) == IF ok THEN "grantpt" ELSE "BadMaster"


\* Variants: only one of the two causes is looked at.
PrepareCause_GrantOnly(g, u) == g

PrepareCause_UnlockOnly(g, u) == u

\* master.grantpt().err().or(master.unlockpt().err()): the first cause wins.
PrepareCause(g, u) == IF g # "none" THEN g ELSE u


\* Variants: the arms for 0 and pid exchanged; the -1 arm missing.
ForkArm_Swapped(r) == IF r = -1 THEN "failure" ELSE IF r = 0 THEN "parent" ELSE "child"

ForkArm_NoFailure(r) == IF r = 0 THEN "child" ELSE "parent"

\* Variant: the pid arm missing, both contexts run the child setup.
ForkArm_BothChild(r) == IF r = -1 THEN "failure" ELSE "child"

\* match libc::fork() { -1 => .., 0 => .., pid => .. }
ForkArm(r) == IF r = -1 THEN "failure" ELSE IF r = 0 THEN "child" ELSE "parent"

ArmPc(a) == IF a = "child" THEN "ptsname" ELSE "done"

ArmRes(a, r) ==
    IF a = "failure" THEN Err("Failure", "-")
    ELSE IF a = "child" THEN NoResult
    ELSE OkParent(r)


\* Variant: a ptsname failure reported as a slave failure.
PtsnameFailure_BadSlave == Err("BadSlave", "PtsnameError")

\* match master.ptsname() { Err(cause) => Err(ForkError::BadMaster(cause)), .. }
PtsnameFailure == Err("BadMaster", "PtsnameError")


\* Variant: the return value of setsid is not looked at.
SetsidArm_Ignore(ret) == "slave_new"

\* if libc::setsid() == -1 { Err(SetsidFail) } else { .. }
SetsidArm(ret) == IF ret = -1 THEN "SetsidFail" ELSE "slave_new"


\* Variant: the chain does not short-circuit.
AndThen_NoShortCircuit(ok, next) == next

\* Result::and_then: the next call runs only on Ok; an Err falls to or_else.
AndThen(ok, next) == IF ok THEN next ELSE "or_else"

\* Variant: the local Master is never released when new returns.
Returned_Leak(c, r, sl) ==
    /\ pc' = [pc EXCEPT ![c] = "done"]
    /\ res' = [res EXCEPT ![c] = r]
    /\ forkVal' = [forkVal EXCEPT ![c] = IF r.tag = "Ok" THEN "live" ELSE "none"]
    /\ master' = master
    /\ slave' = [slave EXCEPT ![c] = sl]

\* Fork::new returns in context c with result r.  A Parent value takes the
\* Master with it; on every other return the local Master goes out of scope.
Returned(c, r, sl) ==
    /\ pc' = [pc EXCEPT ![c] = "done"]
    /\ res' = [res EXCEPT ![c] = r]
    /\ forkVal' = [forkVal EXCEPT ![c] = IF r.tag = "Ok" THEN "live" ELSE "none"]
    /\ master' = [master EXCEPT ![c] =
                    IF r.variant = "Parent" \/ @.state = "none" THEN @
                    ELSE MasterRelease(@)]
    /\ slave' = [slave EXCEPT ![c] = sl]

\* --------------------------------------------------------------- Fork::new
MasterNew(path) ==
    LET cp == CStringNew(path) IN
    \E ok \in {b \in BOOLEAN : b => DeviceExists(cp)} :
        /\ pc["orig"] = "idle"
        /\ cpath' = cp
        /\ trace' = Append(trace, Ev("orig", "open", 0, ok))
        /\ IF OpenArm(ok) = "grantpt"
           THEN /\ pc' = [pc EXCEPT !["orig"] = "grantpt"]
                /\ master' = [master EXCEPT !["orig"] = IF ok THEN OpenFd ELSE @]
                /\ UNCHANGED <<res, forkVal, slave>>
           ELSE Returned("orig", Err("BadMaster", "BadDescriptor"), slave["orig"])
        /\ UNCHANGED <<grantErr, childPid, stdio, aliases, probe, aliasOp, wait, proc>>

New == \E path \in Paths : MasterNew(path)

FromPtmx == MasterNew(DEFAULT_PTMX)

Grantpt ==
    \E c \in Ctx, ok \in BOOLEAN :
        /\ pc[c] = "grantpt"
        /\ CanRun(c)
        /\ trace' = Append(trace, Ev(c, "grantpt", 0, ok))
        /\ grantErr' = [grantErr EXCEPT ![c] = IF ok THEN "none" ELSE "GrantptError"]
        /\ pc' = [pc EXCEPT ![c] = "unlockpt"]
        /\ UNCHANGED <<cpath, res, childPid, master, slave, stdio, forkVal,
                       aliases, probe, aliasOp, wait, proc>>

Unlockpt ==
    \E c \in Ctx, ok \in BOOLEAN :
        LET u == IF ok THEN "none" ELSE "UnlockptError"
            cause == PrepareCause(grantErr[c], u)
        IN /\ pc[c] = "unlockpt"
           /\ CanRun(c)
           /\ trace' = Append(trace, Ev(c, "unlockpt", 0, ok))
           /\ IF cause # "none"
              THEN Returned(c, Err("BadMaster", cause), slave[c])
              ELSE /\ pc' = [pc EXCEPT ![c] = "fork"]
                   /\ UNCHANGED <<res, forkVal, master, slave>>
           /\ UNCHANGED <<cpath, grantErr, childPid, stdio, aliases, probe, aliasOp, wait, proc>>

\* libc::fork(): -1 and no new process, or a new process whose pid the
\* original context receives while the duplicated context receives 0.
ForkCall ==
    \E r \in {-1} \cup (1..MaxPid) :
        LET created == r # -1
            ao == ForkArm(r)
            ad == ForkArm(0)
            ro == ArmRes(ao, r)
            rd == ArmRes(ad, 0)
        IN /\ pc["orig"] = "fork"
           /\ trace' = Append(trace, Ev("orig", "fork", 0, created))
           /\ childPid' = IF created THEN r ELSE 0
           /\ proc' = IF created THEN [proc EXCEPT !.state = "running"] ELSE proc
           /\ pc' = [c \in Ctx |-> IF c = "orig" THEN ArmPc(ao)
                                   ELSE IF created THEN ArmPc(ad) ELSE "absent"]
           /\ res' = [c \in Ctx |-> IF c = "orig" THEN ro
                                    ELSE IF created THEN rd ELSE NoResult]
           /\ forkVal' = [c \in Ctx |->
                            IF c = "orig" THEN (IF ro.tag = "Ok" THEN "live" ELSE "none")
                            ELSE IF created /\ rd.tag = "Ok" THEN "live" ELSE "none"]
           /\ master' = [c \in Ctx |->
                            IF c = "orig"
                            THEN (IF ao = "failure" THEN MasterRelease(master["orig"])
                                  ELSE master["orig"])
                            ELSE IF created
                                 THEN (IF ad = "failure" THEN MasterRelease(master["orig"])
                                       ELSE master["orig"])
                                 ELSE master[c]]
           /\ UNCHANGED <<cpath, grantErr, slave, stdio, aliases, probe, aliasOp, wait>>

Ptsname ==
    \E c \in Ctx, ok \in BOOLEAN :
        /\ pc[c] = "ptsname"
        /\ CanRun(c)
        /\ trace' = Append(trace, Ev(c, "ptsname", 0, ok))
        /\ IF ok
           THEN /\ pc' = [pc EXCEPT ![c] = "setsid"]
                /\ UNCHANGED <<res, forkVal, master, slave>>
           ELSE Returned(c, PtsnameFailure, slave[c])
        /\ UNCHANGED <<cpath, grantErr, childPid, stdio, aliases, probe, aliasOp, wait, proc>>

\* ----------------------------------------------------------- Fork::from_pts
Setsid ==
    \E c \in Ctx, ret \in {-1, 1} :
        /\ pc[c] = "setsid"
        /\ CanRun(c)
        /\ trace' = Append(trace, Ev(c, "setsid", 0, ret # -1))
        /\ IF SetsidArm(ret) = "SetsidFail"
           THEN Returned(c, Err("SetsidFail", "-"), slave[c])
           ELSE /\ pc' = [pc EXCEPT ![c] = SetsidArm(ret)]
                /\ UNCHANGED <<res, forkVal, master, slave>>
        /\ UNCHANGED <<cpath, grantErr, childPid, stdio, aliases, probe, aliasOp, wait, proc>>

SlaveNew ==
    \E c \in Ctx, ok \in BOOLEAN :
        /\ pc[c] = "slave_new"
        /\ CanRun(c)
        /\ trace' = Append(trace, Ev(c, "slave_open", 0, ok))
        /\ IF ok
           THEN /\ pc' = [pc EXCEPT ![c] = "dup_stdin"]
                /\ slave' = [slave EXCEPT ![c] = OpenFd]
                /\ UNCHANGED <<res, forkVal, master>>
           ELSE Returned(c, Err("BadSlave", "BadDescriptor"), slave[c])
        /\ UNCHANGED <<cpath, grantErr, childPid, stdio, aliases, probe, aliasOp, wait, proc>>

\* Variant: a failed link puts the standard streams back.
Dup2_Rollback(here, target, next) ==
    \E c \in Ctx, ok \in BOOLEAN :
        LET nxt == IF ok THEN next ELSE "or_else" IN
        /\ pc[c] = here
        /\ CanRun(c)
        /\ trace' = Append(trace, Ev(c, "dup2", target, ok))
        /\ stdio' = [stdio EXCEPT ![c] =
                        IF ok THEN [@ EXCEPT ![target] = "slave"]
                        ELSE [t \in 0..2 |-> "inherited"]]
        /\ IF nxt = "or_else"
           THEN Returned(c, Err("BadSlave", "Dup2Error"), DescriptorDrop(slave[c]))
           ELSE IF nxt = "child"
                THEN Returned(c, OkChild, slave[c])
                ELSE /\ pc' = [pc EXCEPT ![c] = nxt]
                     /\ UNCHANGED <<res, forkVal, master, slave>>
        /\ UNCHANGED <<cpath, grantErr, childPid, aliases, probe, aliasOp, wait, proc>>

\* One link of the chain slave.dup2(0).and_then(dup2(1)).and_then(dup2(2))
\* .and_then(Ok(Child(slave))).or_else(Err(BadSlave)).
Dup2(here, target, next) ==
    \E c \in Ctx, ok \in BOOLEAN :
        LET nxt == AndThen(ok, next) IN
        /\ pc[c] = here
        /\ CanRun(c)
        /\ trace' = Append(trace, Ev(c, "dup2", target, ok))
        /\ stdio' = [stdio EXCEPT ![c][target] = IF ok THEN "slave" ELSE @]
        /\ IF nxt = "or_else"
           THEN Returned(c, Err("BadSlave", "Dup2Error"), DescriptorDrop(slave[c]))
           ELSE IF nxt = "child"
                THEN Returned(c, OkChild, slave[c])
                ELSE /\ pc' = [pc EXCEPT ![c] = nxt]
                     /\ UNCHANGED <<res, forkVal, master, slave>>
        /\ UNCHANGED <<cpath, grantErr, childPid, aliases, probe, aliasOp, wait, proc>>

Dup2Stdin == Dup2("dup_stdin", STDIN_FILENO, "dup_stdout")

Dup2Stdout == Dup2("dup_stdout", STDOUT_FILENO, "dup_stderr")

Dup2Stderr == Dup2("dup_stderr", STDERR_FILENO, "child")

\* ------------------------------------------------------------------ wait
\* Variant: wait() does not look at the variant.
WaitEntry_NoVariantCheck(variant) == "loop"

\* match *self { Fork::Child(_) => Err(IsChild), Fork::Parent(pid, _) => loop }
WaitEntry(variant) == IF variant = "Child" THEN "IsChild" ELSE "loop"

\* Variants: -1 retried like 0; 0 taken for a result.
WaitArm_RetryOnError(r) == IF r = 0 \/ r = -1 THEN "continue" ELSE "Ok"

WaitArm_ZeroIsResult(r) == IF r = -1 THEN "WaitpidFail" ELSE "Ok"

\* match libc::waitpid(pid, &mut status, 0) { 0 => continue,
\* -1 => return Err(WaitpidFail), _ => return Ok(status) }
WaitArm(r) ==
    IF r = 0 THEN "continue" ELSE IF r = -1 THEN "WaitpidFail" ELSE "Ok"

\* The raw status waitpid stores for a terminated process: the exit code in
\* the high byte, or the number of the terminating signal in the low bits.
StatusOf(p) == IF p.state = "exited" THEN p.code * 256 ELSE p.code

\* What a raw status says (WIFEXITED/WEXITSTATUS, WTERMSIG).
Decode(status) ==
    IF status % 128 = 0 THEN [state |-> "exited", code |-> status \div 256]
    ELSE [state |-> "killed", code |-> status % 128]

Terminated == proc.state \in {"exited", "killed"}

\* What libc::waitpid(pid, .., 0) can return: -1 at any time; 0 ("no status
\* change") while the child runs; the child's pid once it has terminated and
\* has not been reaped yet.
WaitpidReturns(c) ==
    {-1}
    \cup (IF proc.state = "running" /\ Len(wait[c].log) < MaxRetries THEN {0} ELSE {})
    \cup (IF Terminated /\ ~proc.reaped /\ res[c].pid = childPid
          THEN {res[c].pid} ELSE {})

\* Entry of wait(): fails at once on a Child, enters the loop on a Parent.
WaitCall ==
    \E c \in Ctx :
        /\ forkVal[c] = "live"
        /\ CanRun(c)
        /\ wait' = [wait EXCEPT ![c] =
                      IF WaitEntry(res[c].variant) = "IsChild"
                      THEN [state |-> "returned", log |-> <<>>, status |-> 0,
                            res |-> "IsChild"]
                      ELSE [state |-> "waiting", log |-> <<>>, status |-> 0,
                            res |-> "none"]]
        /\ UNCHANGED <<pc, cpath, grantErr, res, childPid, trace, master, slave,
                       stdio, forkVal, aliases, probe, aliasOp, proc>>

\* One turn of the loop: waitpid returns r.
Waitpid ==
    \E c \in Ctx :
        /\ wait[c].state = "waiting"
        /\ Len(wait[c].log) <= MaxRetries
        /\ c = "dup" => proc.state = "running"
        /\ \E r \in WaitpidReturns(c) :
              LET reap == r # 0 /\ r # -1
                  st == IF reap THEN StatusOf(proc) ELSE wait[c].status
                  arm == WaitArm(r)
              IN /\ wait' = [wait EXCEPT ![c] =
                               [state |-> IF arm = "continue" THEN "waiting"
                                          ELSE "returned",
                                log |-> Append(@.log, r),
                                status |-> st,
                                res |-> IF arm = "continue" THEN "none" ELSE arm]]
                 /\ proc' = IF reap THEN [proc EXCEPT !.reaped = TRUE] ELSE proc
        /\ UNCHANGED <<pc, cpath, grantErr, res, childPid, trace, master, slave,
                       stdio, forkVal, aliases, probe, aliasOp>>

\* The duplicated process ends by itself once the caller's code runs in it.
ChildExit ==
    \E code \in ExitCodes :
        /\ proc.state = "running"
        /\ pc["dup"] = "done"
        /\ wait["dup"].state # "waiting"
        /\ proc' = [proc EXCEPT !.state = "exited", !.code = code]
        /\ UNCHANGED <<pc, cpath, grantErr, res, childPid, trace, master, slave,
                       stdio, forkVal, aliases, probe, aliasOp, wait>>

\* The duplicated process is killed from outside, at any time.
ChildKilled ==
    \E sig \in Signals :
        /\ proc.state = "running"
        /\ proc' = [proc EXCEPT !.state = "killed", !.code = sig]
        /\ UNCHANGED <<pc, cpath, grantErr, res, childPid, trace, master, slave,
                       stdio, forkVal, aliases, probe, aliasOp, wait>>

\* ------------------------------------------------------------- accessors
\* Variant: is_parent() hands out the clone whatever the variant.
IsParentArm_AlwaysOk(variant) == "Ok"

\* match *self { Fork::Child(_) => Err(IsChild), Fork::Parent(..) => Ok(clone) }
IsParentArm(variant) == IF variant = "Child" THEN "IsChild" ELSE "Ok"

\* Variant: is_child() succeeds whatever the variant.
IsChildArm_AlwaysOk(variant) == "Ok"

\* match *self { Fork::Parent(..) => Err(IsParent), Fork::Child(ref s) => Ok(s) }
IsChildArm(variant) == IF variant = "Parent" THEN "IsParent" ELSE "Ok"

IsParentAt(c) ==
    /\ forkVal[c] = "live"
    /\ CanRun(c)
    /\ probe' = [probe EXCEPT ![c].is_parent = IsParentArm(res[c].variant)]
    /\ IF IsParentArm(res[c].variant) = "Ok"
       THEN /\ aliases[c] < MaxAliases
            /\ master' = [master EXCEPT ![c] = MasterClone(@)]
            /\ aliases' = [aliases EXCEPT ![c] = @ + 1]
       ELSE UNCHANGED <<master, aliases>>
    /\ UNCHANGED <<pc, cpath, grantErr, res, childPid, trace, slave, stdio,
                   forkVal, aliasOp, wait, proc>>

IsParent == \E c \in Ctx : IsParentAt(c)

IsChildAt(c) ==
    /\ forkVal[c] = "live"
    /\ CanRun(c)
    /\ probe' = [probe EXCEPT ![c].is_child = IsChildArm(res[c].variant)]
    /\ UNCHANGED <<pc, cpath, grantErr, res, childPid, trace, master, slave,
                   stdio, forkVal, aliases, aliasOp, wait, proc>>

IsChild == \E c \in Ctx : IsChildAt(c)

\* ------------------------------------------------------------ Drop for Fork
\* Variant: the drop does nothing for either variant.
DropArm_Never(variant) == "nothing"

\* Fork::Parent(_, ref master) => Descriptor::drop(master), _ => {}; the
\* fields of the value are dropped afterwards.
DropArm(variant) == IF variant = "Parent" THEN "Descriptor::drop" ELSE "nothing"

ForkDropAt(c) ==
    LET v == res[c].variant
        m == IF DropArm(v) = "Descriptor::drop"
             THEN DescriptorDrop(master[c]) ELSE master[c]
    IN /\ forkVal[c] = "live"
       /\ CanRun(c)
       /\ forkVal' = [forkVal EXCEPT ![c] = "dropped"]
       /\ master' = [master EXCEPT ![c] =
                       IF v = "Parent" THEN MasterRelease(m) ELSE m]
       /\ slave' = [slave EXCEPT ![c] =
                      IF v = "Child" THEN DescriptorDrop(@) ELSE @]
       /\ UNCHANGED <<pc, cpath, grantErr, res, childPid, trace, stdio,
                      aliases, probe, aliasOp, wait, proc>>

ForkDrop == \E c \in Ctx : ForkDropAt(c)

\* ------------------------------------------------ the caller's Master clones
AliasDrop ==
    \E c \in Ctx :
        /\ aliases[c] > 0
        /\ CanRun(c)
        /\ aliases' = [aliases EXCEPT ![c] = @ - 1]
        /\ master' = [master EXCEPT ![c] = MasterRelease(@)]
        /\ UNCHANGED <<pc, cpath, grantErr, res, childPid, trace, slave, stdio,
                       forkVal, probe, aliasOp, wait, proc>>

\* An operation on a clone succeeds exactly when the descriptor is open.
AliasUse ==
    \E c \in Ctx :
        /\ aliases[c] > 0
        /\ CanRun(c)
        /\ aliasOp' = [aliasOp EXCEPT ![c] =
                          IF master[c].state = "open" THEN "ok" ELSE "EBADF"]
        /\ UNCHANGED <<pc, cpath, grantErr, res, childPid, trace, master, slave,
                       stdio, forkVal, aliases, probe, wait, proc>>

Next ==
    \/ New
    \/ FromPtmx
    \/ Grantpt
    \/ Unlockpt
    \/ ForkCall
    \/ Ptsname
    \/ Setsid
    \/ SlaveNew
    \/ Dup2Stdin
    \/ Dup2Stdout
    \/ Dup2Stderr
    \/ WaitCall
    \/ Waitpid
    \/ ChildExit
    \/ ChildKilled
    \/ IsParent
    \/ IsChild
    \/ ForkDrop
    \/ AliasDrop
    \/ AliasUse

Spec == Init /\ [][Next]_vars

\* The context inside wait() keeps running its loop, and the OS completes a
\* waitpid call that can return.
FairSpec == Spec /\ WF_vars(Waitpid)

TypeOK ==
    /\ pc \in [Ctx -> {"idle", "absent", "grantpt", "unlockpt", "fork", "ptsname",
                       "setsid", "slave_new", "dup_stdin", "dup_stdout",
                       "dup_stderr", "done"}]
    /\ childPid \in 0..MaxPid
    /\ aliases \in [Ctx -> 0..MaxAliases]
    /\ \A c \in Ctx : master[c].rc >= 0 /\ slave[c].rc >= 0

\* ================================================================ claims
\* The order in which one construction invokes the OS primitives.
Canon ==
    << [op |-> "open", arg |-> 0], [op |-> "grantpt", arg |-> 0],
       [op |-> "unlockpt", arg |-> 0], [op |-> "fork", arg |-> 0],
       [op |-> "ptsname", arg |-> 0], [op |-> "setsid", arg |-> 0],
       [op |-> "slave_open", arg |-> 0],
       [op |-> "dup2", arg |-> STDIN_FILENO],
       [op |-> "dup2", arg |-> STDOUT_FILENO],
       [op |-> "dup2", arg |-> STDERR_FILENO] >>

ChildOps == {"ptsname", "setsid", "slave_open", "dup2"}

InOrder ==
    /\ Len(trace) <= Len(Canon)
    /\ \A i \in 1..Len(trace) :
          /\ trace[i].op = Canon[i].op
          /\ trace[i].arg = Canon[i].arg
          /\ trace[i].ctx = (IF trace[i].op \in ChildOps THEN "dup" ELSE "orig")

ChildOnlyAfterDups ==
    \A c \in Ctx :
        res[c] = OkChild =>
            /\ Len(trace) = Len(Canon)
            /\ \A i \in 8..10 : trace[i].ok

Failed(op) == \E i \in 1..Len(trace) : trace[i].op = op /\ ~trace[i].ok

Invoked(op) == \E i \in 1..Len(trace) : trace[i].op = op

LastIs(op) == Len(trace) > 0 /\ trace[Len(trace)].op = op

Untouched(c) ==
    /\ slave[c] = NoFd
    /\ \A t \in 0..2 : stdio[c][t] = "inherited"

\* C1 (as stated): the primitives run in the order open, grant, unlock, fork,
\* ptsname, setsid, slave open, dup2 x3, the child-side ones in the duplicated
\* context only, no stage starts before the previous one succeeded, and
\* Ok(Child) is returned only after all three dup2 calls succeeded.
C1_EveryStageAfterSuccess ==
    /\ InOrder
    /\ \A i \in 2..Len(trace) : trace[i - 1].ok
    /\ ChildOnlyAfterDups

\* C1 (amended): as C1, except that unlock is attempted after grant whatever
\* grant's outcome; fork starts only after grant and unlock both succeeded.
C1_OrderedStages ==
    /\ InOrder
    /\ \A i \in 2..Len(trace) : i # 3 => trace[i - 1].ok
    /\ Len(trace) >= 4 => trace[2].ok /\ trace[3].ok
    /\ ChildOnlyAfterDups

C1_Witness == res["dup"] = OkChild /\ Len(trace) = 10

IsDup2(e) == e.op = "dup2"

\* C2: in the child the slave is duplicated onto stdin, stdout, stderr in
\* that order; after a failed dup2 no further dup2 is attempted (none is
\* retried) and the result is Err(BadSlave).
C2_Dup2ShortCircuit ==
    LET D == SelectSeq(trace, IsDup2) IN
    /\ Len(D) <= 3
    /\ \A i \in 1..Len(D) : D[i].arg = i - 1 /\ D[i].ctx = "dup"
    /\ \A i \in 1..(Len(D) - 1) : D[i].ok
    /\ \A i \in 1..Len(D) :
          ~D[i].ok => /\ i = Len(D)
                      /\ LastIs("dup2")
                      /\ pc["dup"] = "done"
                      /\ res["dup"].tag = "Err"
                      /\ res["dup"].variant = "BadSlave"
                      /\ \A t \in (i - 1)..2 : stdio["dup"][t] = "inherited"

C2_Witness ==
    LET D == SelectSeq(trace, IsDup2) IN
    /\ Len(D) = 2
    /\ ~D[2].ok
    /\ pc["dup"] = "done"

\* C3: when grant() or unlock() fails, Fork::new returns Err(BadMaster), fork
\* is never invoked, no child process exists and no pid is returned.
C3_PrepareFailureNoFork ==
    (Failed("grantpt") \/ Failed("unlockpt")) =>
        /\ ~Invoked("fork")
        /\ childPid = 0
        /\ pc["dup"] = "absent"
        /\ pc["orig"] \in {"unlockpt", "done"}
        /\ \A c \in Ctx : res[c].pid = 0 /\ res[c].tag # "Ok"
        /\ pc["orig"] = "done" =>
              res["orig"].tag = "Err" /\ res["orig"].variant = "BadMaster"

C3_Witness ==
    /\ Failed("grantpt")
    /\ ~Failed("unlockpt")
    /\ pc["orig"] = "done"

\* C4: when the multiplexer device cannot be opened (which is always so for
\* an invalid or nonexistent path), Fork::new returns Err(BadMaster) and
\* none of grant, unlock, fork is invoked: no process is created.
C4_OpenFailureStops ==
    /\ (Len(trace) >= 1 /\ ~DeviceExists(cpath)) => ~trace[1].ok
    /\ Failed("open") =>
          /\ Len(trace) = 1
          /\ pc["orig"] = "done"
          /\ res["orig"].tag = "Err"
          /\ res["orig"].variant = "BadMaster"
          /\ childPid = 0
          /\ pc["dup"] = "absent"
          /\ master["orig"] = NoFd

C4_Witness ==
    /\ Failed("open")
    /\ ~DeviceExists(cpath)
    /\ pc["orig"] = "done"

PtsnameFailureStops(variant) ==
    \A i \in 1..Len(trace) :
        (trace[i].op = "ptsname" /\ ~trace[i].ok) =>
            /\ i = Len(trace)
            /\ pc[trace[i].ctx] = "done"
            /\ res[trace[i].ctx].tag = "Err"
            /\ res[trace[i].ctx].variant = variant
            /\ Untouched(trace[i].ctx)

\* C5 (as stated): when ptsname() fails in the child, construction ends in
\* Err(BadSlave) and neither setsid nor slave open nor any dup2 is performed.
C5_PtsnameFailureBadSlave == PtsnameFailureStops("BadSlave")

\* C5 (amended): when ptsname() fails in the child, construction ends in
\* Err(BadMaster) and neither setsid nor slave open nor any dup2 is performed.
C5_PtsnameFailureBadMaster == PtsnameFailureStops("BadMaster")

C5_Witness == Failed("ptsname") /\ pc["dup"] = "done"

\* C6: when setsid fails in the child the result is Err(SetsidFail): the
\* slave is not opened, no standard stream is rebound and Ok(Child) is not
\* reached from there.
C6_SetsidFailureFatal ==
    \A i \in 1..Len(trace) :
        (trace[i].op = "setsid" /\ ~trace[i].ok) =>
            /\ i = Len(trace)
            /\ pc[trace[i].ctx] = "done"
            /\ res[trace[i].ctx] = Err("SetsidFail", "-")
            /\ forkVal[trace[i].ctx] = "none"
            /\ Untouched(trace[i].ctx)

C6_Witness == Failed("setsid") /\ pc["dup"] = "done"

\* C7: when fork succeeds the original context returns Ok(Parent(pid, master))
\* with pid the child's process id and performs no child-side step; the
\* duplicated context never returns a Parent value (Ok(Child) or an error).
C7_ContextsDiverge ==
    childPid # 0 =>
        /\ pc["orig"] = "done"
        /\ res["orig"] = OkParent(childPid)
        /\ master["orig"].state # "none"
        /\ Untouched("orig")
        /\ \A i \in 1..Len(trace) : trace[i].op \in ChildOps => trace[i].ctx = "dup"
        /\ res["dup"].variant # "Parent"
        /\ res["dup"].tag = "Ok" => res["dup"] = OkChild
        /\ pc["dup"] # "absent"

C7_Witness ==
    /\ childPid # 0
    /\ res["orig"].variant = "Parent"
    /\ res["dup"].variant = "Child"

\* C8: when fork returns -1, Fork::new returns Err(Failure): no child context
\* executes, no Parent or Child value is produced and no child-side step runs.
C8_ForkFailure ==
    Failed("fork") =>
        /\ LastIs("fork")
        /\ pc["orig"] = "done"
        /\ res["orig"] = Err("Failure", "-")
        /\ pc["dup"] = "absent"
        /\ res["dup"] = NoResult
        /\ childPid = 0
        /\ \A c \in Ctx : forkVal[c] = "none" /\ Untouched(c)

C8_Witness == Failed("fork") /\ pc["orig"] = "done"

\* C9: a Master clone obtained through is_parent() stays usable after the
\* Fork::Parent value is dropped: the descriptor stays open and operations
\* on the clone succeed while any alias is live.
C9_CloneSurvivesForkDrop ==
    \A c \in Ctx :
        aliases[c] > 0 => /\ master[c].state = "open"
                          /\ aliasOp[c] # "EBADF"

\* C10: over any sequence of is_parent() calls, alias drops and the drop of
\* the Fork value, the master descriptor is closed exactly once: never
\* twice, and at the moment the last alias is dropped.
C10_ClosedOnceAtLastAlias ==
    \A c \in Ctx :
        res[c].variant = "Parent" =>
            /\ master[c].closes <= 1
            /\ master[c].state = "closed" <=>
                  (forkVal[c] = "dropped" /\ aliases[c] = 0)

C12_WaitRetriesOnlyOnZero ==
    \A c \in Ctx :
        LET w == wait[c]
            n == Len(w.log)
        IN /\ \A i \in 1..(n - 1) : w.log[i] = 0
           /\ w.state = "waiting" =>
                 /\ \A i \in 1..n : w.log[i] = 0
                 /\ w.res = "none"
           /\ (w.state = "returned" /\ res[c].variant = "Parent") =>
                 /\ n >= 1
                 /\ w.log[n] # 0
                 /\ w.log[n] = -1 => w.res = "WaitpidFail"
                 /\ w.log[n] # -1 => w.res = "Ok" /\ w.status = StatusOf(proc)

C12_Witness ==
    /\ wait["orig"].state = "returned"
    /\ wait["orig"].res = "Ok"
    /\ Len(wait["orig"].log) = MaxRetries + 1

\* C13 (as stated): a wait() on a Parent called while the child runs does
\* not return before the child terminated, and what it returns is a status
\* reflecting that termination.
C13_ReturnsOnlyAfterTermination ==
    \A c \in Ctx :
        (wait[c].state = "returned" /\ res[c].variant = "Parent") =>
            /\ Terminated
            /\ wait[c].res = "Ok"

TerminationOf(p) == [state |-> p.state, code |-> p.code]

\* C13 (amended): wait() on a Parent returns Ok(status) only after the child
\* terminated, with a status reflecting that termination (exit or kill); it
\* returns while the child still runs only with Err(WaitpidFail), when
\* waitpid fails; and once the child has terminated a wait() in progress
\* eventually returns.
C13_WaitUntilTermination ==
    /\ [](\A c \in Ctx :
            /\ wait[c].res = "Ok" =>
                  /\ Terminated
                  /\ proc.reaped
                  /\ Decode(wait[c].status) = TerminationOf(proc)
            /\ (wait[c].state = "returned" /\ res[c].variant = "Parent"
                /\ ~Terminated) => wait[c].res = "WaitpidFail")
    /\ ((wait["orig"].state = "waiting" /\ Terminated)
           ~> (wait["orig"].state = "returned"))

C13_Witness ==
    /\ wait["orig"].res = "Ok"
    /\ proc.state = "killed"
    /\ Len(wait["orig"].log) >= 2

\* C14: wait() on a Child fails with IsChild and never blocks: waitpid is
\* not invoked.
C14_WaitOnChild ==
    \A c \in Ctx :
        res[c].variant = "Child" =>
            /\ wait[c].state # "waiting"
            /\ wait[c].log = <<>>
            /\ wait[c].state = "returned" => wait[c].res = "IsChild"
            /\ wait[c].state = "idle" => wait[c].res = "none"

C14_Witness == wait["dup"].state = "returned" /\ wait["dup"].res = "IsChild"

\* C15: for every successfully constructed Fork value exactly one of
\* is_parent() and is_child() succeeds: on Parent is_parent() succeeds and
\* is_child() fails with IsParent, on Child is_child() succeeds and
\* is_parent() fails with IsChild.
C15_ExactlyOneAccessor ==
    \A c \in Ctx :
        forkVal[c] # "none" =>
            /\ res[c].variant \in {"Parent", "Child"}
            /\ res[c].variant = "Parent" =>
                  /\ probe[c].is_parent \in {"none", "Ok"}
                  /\ probe[c].is_child \in {"none", "IsParent"}
            /\ res[c].variant = "Child" =>
                  /\ probe[c].is_parent \in {"none", "IsChild"}
                  /\ probe[c].is_child \in {"none", "Ok"}
            /\ (probe[c].is_parent # "none" /\ probe[c].is_child # "none") =>
                  (probe[c].is_parent = "Ok") # (probe[c].is_child = "Ok")

C15_Witness ==
    \A c \in Ctx : probe[c].is_parent # "none" /\ probe[c].is_child # "none"

\* C16: is_parent() on a Child and is_child() on a Parent fail with the
\* documented error and change nothing else: the variant, the descriptors
\* and the alias count stay as they were.
C16_MismatchedProbeNoEffect ==
    [][\A c \in Ctx :
          /\ (res[c].variant = "Child" /\ IsParentAt(c)) =>
                /\ probe'[c].is_parent = "IsChild"
                /\ probe'[c].is_child = probe[c].is_child
                /\ UNCHANGED <<res, forkVal, master, slave, aliases, stdio,
                               wait, proc, pc>>
          /\ (res[c].variant = "Parent" /\ IsChildAt(c)) =>
                /\ probe'[c].is_child = "IsParent"
                /\ probe'[c].is_parent = probe[c].is_parent
                /\ UNCHANGED <<res, forkVal, master, slave, aliases, stdio,
                               wait, proc, pc>>]_vars

C16_Witness ==
    /\ probe["dup"].is_parent = "IsChild"
    /\ probe["orig"].is_child = "IsParent"
    /\ forkVal["orig"] = "live"
    /\ forkVal["dup"] = "live"

\* C17: dropping a Fork::Parent closes its Master's descriptor; dropping a
\* Fork::Child leaves every master descriptor as it was.
C17_DropClosesParentMaster ==
    [][\A c \in Ctx :
          ForkDropAt(c) =>
              /\ res[c].variant = "Parent" =>
                    /\ master'[c].state = "closed"
                    /\ master'[c].closes = 1
              /\ res[c].variant = "Child" => master' = master]_vars

C17_Witness ==
    /\ forkVal["orig"] = "dropped"
    /\ aliases["orig"] > 0
    /\ master["orig"].state = "closed"
    /\ forkVal["dup"] = "dropped"

\* C18: unlock() is attempted exactly once after grant() whatever grant's
\* outcome; when grant() failed the BadMaster cause is grant's, also when
\* unlock() failed too; unlock's cause is reported only when grant succeeded.
C18_GrantCauseWins ==
    /\ (Invoked("grantpt") /\ pc["orig"] # "unlockpt") =>
          Cardinality({i \in 1..Len(trace) : trace[i].op = "unlockpt"}) = 1
    /\ \A i \in 1..Len(trace) :
          trace[i].op = "unlockpt" => (i > 1 /\ trace[i - 1].op = "grantpt")
    /\ (Failed("grantpt") /\ pc["orig"] = "done") =>
          res["orig"] = Err("BadMaster", "GrantptError")
    /\ (Failed("unlockpt") /\ ~Failed("grantpt")) =>
          res["orig"] = Err("BadMaster", "UnlockptError")
    /\ res["orig"].cause = "UnlockptError" => ~Failed("grantpt")

C18_Witness ==
    /\ Failed("grantpt")
    /\ Failed("unlockpt")
    /\ pc["orig"] = "done"

\* C19: the original context's result is fixed at the split: whatever error
\* the duplicated context ends in, the parent holds Ok(Parent(pid, master)).
C19_ParentResultFixedAtSplit ==
    (childPid # 0 /\ res["dup"].tag = "Err") =>
        /\ res["orig"] = OkParent(childPid)
        /\ forkVal["orig"] \in {"live", "dropped"}
        /\ forkVal["dup"] = "none"

C19_Witness ==
    /\ res["orig"].variant = "Parent"
    /\ forkVal["orig"] = "live"
    /\ res["dup"].tag = "Err"
    /\ proc.state = "running"

\* C20: a failing dup2 is not rolled back: when the dup2 onto stdout or
\* stderr fails and Err(BadSlave) is returned, the streams rebound by the
\* earlier dup2 calls still refer to the slave.
C20_NoRollback ==
    LET D == SelectSeq(trace, IsDup2) IN
    \A i \in 2..Len(D) :
        ~D[i].ok =>
            /\ res["dup"] = Err("BadSlave", "Dup2Error")
            /\ \A t \in 0..(i - 2) : stdio["dup"][t] = "slave"
            /\ stdio["dup"] # [t \in 0..2 |-> "inherited"]

C20_Witness ==
    LET D == SelectSeq(trace, IsDup2) IN
    /\ Len(D) = 3
    /\ ~D[3].ok
    /\ res["dup"].tag = "Err"
====
